---- MODULE Spec2Model ----
(***************************************************************************)
(* A model of hcam_widgets: the COMPO focal-plane geometry of compo.py     *)
(* (unit conversions, calibration interpolators, Chip clipping, Baffle,    *)
(* InjectionArm, PickoffArm).                                              *)
(*                                                                         *)
(* Numbers.  A converted quantity is kept as c * 1.214^fp * 0.08086^px     *)
(* with c an exact rational <<numerator, denominator>>: the source         *)
(* computes it in IEEE doubles, whose rounding (a few ulp) is not          *)
(* modelled.  Geometry is modelled in fixed point: lengths in 1/FixScale   *)
(* mm, sines and cosines in 1/TrigScale, angles in 1/100 degree.           *)
(***************************************************************************)
EXTENDS Integers, Sequences, FiniteSets, TLC

VARIABLES
    q0, q, path,    \* a length, the length after the conversions of path
    fscLog,         \* the calls of field_stop_centre made: <<theta, result>>
    clipIn, clipOut,\* the vertices given to Chip.clip_shape, and what it did
    arm,            \* the InjectionArm of the program: its side, its Baffle
    ret,            \* the last call on an arm, and what it returned or raised
    lens, tlpLog,   \* the lens-offset table loaded, the calls of
                    \* target_lens_position made: <<theta, guiding, result>>
    conn, corbaRet, \* a CORBAConnection, the last call on it and its outcome
    corbaLog,       \* the calls made on the connection, with their outcome
    thr, fifo,      \* the FifoThreads started, the fifo they share
    rsIn, rs,       \* the arguments and the attributes of the last ReadServer
    post, contacts  \* the postJSON call in progress, the servers contacted

unitVars == <<q0, q, path>>
interpVars == <<fscLog>>
clipVars == <<clipIn, clipOut>>
armVars == <<arm, ret>>
lensVars == <<lens, tlpLog>>
corbaVars == <<conn, corbaRet, corbaLog>>
fifoVars == <<thr, fifo>>
readVars == <<rsIn, rs>>
postVars == <<post, contacts>>
serverVars == <<readVars, postVars>>
otherVars == <<lensVars, corbaVars, fifoVars, serverVars>>
vars == <<q0, q, path, fscLog, clipIn, clipOut, arm, ret,
          lens, tlpLog, conn, corbaRet, corbaLog, thr, fifo,
          rsIn, rs, post, contacts>>

----------------------------------------------------------------------------
(* Rational numbers <<n, d>> with d > 0 and gcd(n, d) = 1.                 *)

Abs(x) == IF x < 0 THEN -x ELSE x

RECURSIVE GCD(_, _)
GCD(a, b) == IF b = 0 THEN a ELSE GCD(b, a % b)

Rat(n, d) ==
    LET s == IF d < 0 THEN -1 ELSE 1
        g == GCD(Abs(n), Abs(d))
    IN  <<(s * n) \div g, (s * d) \div g>>

\* the product, cancelling across before multiplying
RMul(a, b) ==
    LET g1 == GCD(Abs(a[1]), b[2])
        g2 == GCD(Abs(b[1]), a[2])
    IN  Rat((a[1] \div g1) * (b[1] \div g2), (a[2] \div g2) * (b[2] \div g1))

RInv(a) == Rat(a[2], a[1])

RDiv(a, b) == RMul(a, RInv(b))

RNeg(a) == <<-a[1], a[2]>>

----------------------------------------------------------------------------
(* astropy units, as far as compo.py uses them.                            *)

Units == {"mm", "cm", "pix", "arcsec", "arcmin", "deg", "rad", "s"}

\* the physical type of a unit: units of one type convert by a plain scale
PhysType(unit) ==
    CASE unit \in {"mm", "cm"} -> "length"
      [] unit = "pix" -> "pixel"
      [] unit \in {"arcsec", "arcmin", "deg", "rad"} -> "angle"
      [] OTHER -> "time"

\* the size of a unit in the base unit of its type (mm, pix, arcsec, s);
\* one radian is 648000/pi arcsec, here to the nearest arcsec
UnitScale(unit) ==
    CASE unit = "cm" -> <<10, 1>>
      [] unit = "arcmin" -> <<60, 1>>
      [] unit = "deg" -> <<3600, 1>>
      [] unit = "rad" -> <<206265, 1>>
      [] OTHER -> <<1, 1>>

\* A value is c * 1.214^fp * 0.08086^px with c a rational: the two scale
\* constants of compo.py (focal_plane_scale, pixel_scale) are kept as
\* symbols, so that a product of any number of conversions is exact.  The
\* form is unique, and equality of values is equality of the records, as
\* long as no coefficient has a prime factor of 607 or 4043 (1.214 is
\* 607/500, 0.08086 is 4043/50000), which the inputs of the model respect.
Val(c) == [c |-> c, fp |-> 0, px |-> 0]

VScale(v, r) == [v EXCEPT !.c = RMul(v.c, r)]

\* lambda x: x * 1.214^dfp * 0.08086^dpx
VTimes(v, dfp, dpx) ==
    IF v.c[1] = 0 THEN v ELSE [v EXCEPT !.fp = v.fp + dfp, !.px = v.px + dpx]

RECURSIVE RPow(_, _)
RPow(r, n) ==
    IF n = 0 THEN <<1, 1>>
    ELSE IF n < 0 THEN RPow(RInv(r), -n)
    ELSE RMul(r, RPow(r, n - 1))

\* the rational a value stands for
VEval(v) == RMul(v.c, RMul(RPow(Rat(1214, 1000), v.fp), RPow(Rat(8086, 100000), v.px)))

\* a faulty variant: the backward function of the mm <-> pix entry multiplies by
\* 1.214 where it should divide
gtc_focalplane_equivalencies_badinverse ==
    << [funit |-> "mm", tunit |-> "arcsec", a |-> <<1, 0>>, b |-> <<-1, 0>>],
       [funit |-> "pix", tunit |-> "arcsec", a |-> <<0, -1>>, b |-> <<0, 1>>],
       [funit |-> "mm", tunit |-> "pix", a |-> <<1, -1>>, b |-> <<1, 1>>] >>

\* (funit, tunit, forward, backward).  Each lambda multiplies and divides
\* by the constants 1.214 and 0.08086, and is given as the exponents
\* <<dfp, dpx>> it applies: x*1.214 is <<1, 0>>, x/0.08086 is <<0, -1>>,
\* x*1.214/0.08086 is <<1, -1>>, x*0.08086/1.214 is <<-1, 1>>.
gtc_focalplane_equivalencies ==
    << [funit |-> "mm", tunit |-> "arcsec", a |-> <<1, 0>>, b |-> <<-1, 0>>],
       [funit |-> "pix", tunit |-> "arcsec", a |-> <<0, -1>>, b |-> <<0, 1>>],
       [funit |-> "mm", tunit |-> "pix", a |-> <<1, -1>>, b |-> <<-1, 1>>] >>

\* Unit.to under set_enabled_equivalencies(gtc_focalplane_equivalencies):
\* a plain scale between units of one type; else the first equivalency,
\* in list order, that relates the two types, forward or backward; else
\* UnitConversionError.  The result is [ok, val].
ConvFail == [ok |-> FALSE, val |-> Val(<<0, 1>>)]

EquivMatches(e, from, unit) ==
    \/ PhysType(from) = PhysType(e.funit) /\ PhysType(unit) = PhysType(e.tunit)
    \/ PhysType(from) = PhysType(e.tunit) /\ PhysType(unit) = PhysType(e.funit)

ApplyEquiv(e, val, from, unit) ==
    LET f == IF PhysType(from) = PhysType(e.funit) /\ PhysType(unit) = PhysType(e.tunit)
             THEN e.a ELSE e.b
    IN  VScale(VTimes(VScale(val, UnitScale(from)), f[1], f[2]), RInv(UnitScale(unit)))

to(val, from, unit) ==
    IF PhysType(from) = PhysType(unit)
    THEN [ok |-> TRUE, val |-> VScale(val, RDiv(UnitScale(from), UnitScale(unit)))]
    ELSE LET eqs == gtc_focalplane_equivalencies
             hits == {i \in 1..Len(eqs) : EquivMatches(eqs[i], from, unit)}
         IN  IF hits = {} THEN ConvFail
             ELSE LET first == CHOOSE i \in hits : \A j \in hits : i <= j
                  IN  [ok |-> TRUE, val |-> ApplyEquiv(eqs[first], val, from, unit)]

----------------------------------------------------------------------------
(* Conversions between the three focal-plane frames: a length q0 is        *)
(* converted from unit to unit along a path.                               *)

MaxL == 3
MaxHops == 2

FrameUnits == {"mm", "pix", "arcsec"}

IdleUnits ==
    /\ q0 = [val |-> Val(<<0, 1>>), unit |-> "mm"]
    /\ q = q0
    /\ path = <<>>

IdleInterp == fscLog = <<>>

NotCalled == [kind |-> "not called", xy |-> <<>>, z |-> <<>>, unit |-> "mm"]

IdleClip ==
    /\ clipIn = [unit |-> "mm", xyz |-> <<>>]
    /\ clipOut = NotCalled

\* a lazyproperty not yet computed
Unset == [kind |-> "unset", xy |-> <<>>, z |-> <<>>, unit |-> "mm"]

NoArm == [made |-> FALSE, side |-> "", b |-> [right |-> Unset, left |-> Unset]]

NoCall == [op |-> "", side |-> "", theta |-> 0, kind |-> "ok",
           position |-> <<0, 0, 0>>, patches |-> <<>>, array |-> <<>>]

IdleArms ==
    /\ arm = NoArm
    /\ ret = NoCall

\* no table loaded yet, no call made
IdleLens ==
    /\ lens = <<>>
    /\ tlpLog = <<>>

\* CORBAConnection(): __init__ sets the state RawCORBAState
RawConnection == [state |-> "Raw", orb |-> FALSE, rootContext |-> FALSE]

NoCorbaCall == [op |-> "", was |-> "Raw", kind |-> "ok", object |-> FALSE]

IdleCorba ==
    /\ conn = RawConnection
    /\ corbaRet = NoCorbaCall
    /\ corbaLog = <<>>

\* no thread started, the fifo empty
IdleFifo ==
    /\ thr = <<>>
    /\ fifo = <<>>

\* a response of a server: whether its text parses as JSON, the keys of the
\* decoded object and the values under them
NoResponse ==
    [parses |-> FALSE, keys |-> {}, RETCODE |-> "", MESSAGEBUFFER |-> "",
     subStateName |-> "", statusName |-> "", newDataFileName |-> <<>>,
     expStatusName |-> "", status |-> ""]

\* no ReadServer constructed: every attribute unset
NoReadServer ==
    [made |-> FALSE, raised |-> "", root |-> "", ok |-> FALSE, err |-> "",
     state |-> "None", clocks |-> "None", msg |-> "", run |-> 0,
     hasRun |-> FALSE]

\* no postJSON call made
NoPost == [pc |-> "idle", calls |-> 0, telins |-> "", result |-> "None"]

\* no response read, nothing posted
IdleServer ==
    /\ rsIn = [resp |-> NoResponse, status_msg |-> FALSE,
               state_is_ERR |-> FALSE, clocks_is_ERR |-> FALSE]
    /\ rs = NoReadServer
    /\ post = NoPost
    /\ contacts = <<>>

IdleOther == IdleLens /\ IdleCorba /\ IdleFifo /\ IdleServer

InitUnits ==
    /\ q0 \in [val : {Val(<<n, 1>>) : n \in -MaxL..MaxL}, unit : FrameUnits]
    /\ q = q0
    /\ path = <<>>
    /\ IdleInterp /\ IdleClip /\ IdleArms /\ IdleOther

Convert(unit) ==
    /\ Len(path) < MaxHops
    /\ to(q.val, q.unit, unit).ok
    /\ q' = [val |-> to(q.val, q.unit, unit).val, unit |-> unit]
    /\ path' = Append(path, unit)
    /\ UNCHANGED <<q0, interpVars, clipVars, armVars, otherVars>>

NextUnits == \E unit \in FrameUnits : Convert(unit)

SpecUnits == InitUnits /\ [][NextUnits]_vars

\* C1: whatever path of conversions leads from the unit of q0 to a unit,
\* the value reached is the value of the direct conversion (mm -> pixel
\* equals mm -> arcsec -> pixel, and so for every two-step path).
C1_PathsAgree ==
    Len(path) = 2 => q.val = to(q0.val, q0.unit, q.unit).val

\* C2: converting a length from unit A to unit B and back to A gives the
\* length again, for every pair of frame units.
C2_RoundTrip ==
    (Len(path) = 2 /\ path[2] = q0.unit) => q.val = q0.val

C2_Witness ==
    /\ Len(path) = 2 /\ path[2] = q0.unit /\ path[1] # q0.unit
    /\ q0.val.c[1] # 0 /\ q.val = q0.val

----------------------------------------------------------------------------
(* The calibration interpolators.  Angles are in degrees, offsets in       *)
(* micro-arcmin.                                                           *)

THETA == <<0, 5, 10, 15, 20, 25, 30, 35, 40, 45, 50, 55, 60, 65>>

X == <<0, 476000, 949000, 1414000, 1868000, 2309000, 2731000, 3133000,
       3511000, 3863000, 4185000, 4475000, 4731000, 4951000>>

Y == <<0, 21000, 83000, 186000, 329000, 512000, 732000, 988000,
       1278000, 1600000, 1951000, 2329000, 2731000, 3154000>>

\* interp1d(THETA, ., kind='cubic', fill_value='extrapolate') is scipy's
\* cubic spline through the samples with not-a-knot ends, continued below
\* 0 deg by the cubic of its first piece.  Entry i is the value of that
\* spline at -THETA[i], solved exactly from the samples and rounded to the
\* micro-arcmin.
x_extrapolated ==
    <<0, -473644, -939575, -1392438, -1826875, -2237532, -2619051, -2966076,
      -3273251, -3535220, -3746627, -3902115, -3996328, -4023910>>

y_extrapolated ==
    <<0, 19591, 79363, 178907, 317814, 495675, 712080, 966620,
      1258886, 1588468, 1954958, 2357945, 2797021, 3271776>>

SampleIndex(theta) == CHOOSE i \in 1..Len(THETA) : THETA[i] = Abs(theta)

\* at a sample the spline has the sample's value
x_func(theta) ==
    IF theta >= 0 THEN X[SampleIndex(theta)] ELSE x_extrapolated[SampleIndex(theta)]

y_func(theta) ==
    IF theta >= 0 THEN Y[SampleIndex(theta)] ELSE y_extrapolated[SampleIndex(theta)]

field_stop_centre(theta) == <<x_func(theta), y_func(theta)>>

MaxCalls == 2

\* the angles of the model: the samples and their mirror images
InterpThetas == {THETA[i] : i \in 1..Len(THETA)} \cup {-THETA[i] : i \in 1..Len(THETA)}

InitInterp ==
    /\ fscLog = <<>>
    /\ IdleUnits /\ IdleClip /\ IdleArms /\ IdleOther

FieldStopCentre(theta) ==
    /\ Len(fscLog) < MaxCalls
    /\ fscLog' = Append(fscLog, <<theta, field_stop_centre(theta)>>)
    /\ UNCHANGED <<unitVars, clipVars, armVars, otherVars>>

NextInterp == \E theta \in InterpThetas : FieldStopCentre(theta)

SpecInterp == InitInterp /\ [][NextInterp]_vars

\* C4: of two calls of field_stop_centre at theta >= 0 and at -theta, the
\* second returns the X of the first negated and the Y of the first.
C4_Symmetry ==
    \A i, j \in 1..Len(fscLog) :
        (fscLog[i][1] >= 0 /\ fscLog[j][1] = -fscLog[i][1]) =>
            /\ fscLog[j][2][1] = -fscLog[i][2][1]
            /\ fscLog[j][2][2] = fscLog[i][2][2]

----------------------------------------------------------------------------
(* Chip: the detector footprint, and the clipping of a shape by its edges. *)
(* Positions on the focal plane are integers, in 1/FixScale mm.            *)

FixScale == 10 * 10

FDiv(a, b) == IF b < 0 THEN (-a) \div (-b) ELSE a \div b

\* a rational number of mm as a fixed-point length
Fix(r) == (r[1] * FixScale) \div r[2]

\* NX = (2048 * u.pix).to(u.mm), NY = (1024 * u.pix).to(u.mm), in mm
Chip_NX == VEval(to(Val(<<2048, 1>>), "pix", "mm").val)

Chip_NY == VEval(to(Val(<<1024, 1>>), "pix", "mm").val)

\* Bbox([[-NX.value/2, -NY.value/2], [NX.value/2, NY.value/2]])
clip_rect ==
    [xmin |-> -Fix(RDiv(Chip_NX, <<2, 1>>)), ymin |-> -Fix(RDiv(Chip_NY, <<2, 1>>)),
     xmax |-> Fix(RDiv(Chip_NX, <<2, 1>>)), ymax |-> Fix(RDiv(Chip_NY, <<2, 1>>))]

\* matplotlib's clip_to_rect_filters: xlt, xgt, ylt, ygt with their value
is_inside(f, p) ==
    CASE f[1] = "xlt" -> p[1] <= f[2]
      [] f[1] = "xgt" -> p[1] >= f[2]
      [] f[1] = "ylt" -> p[2] <= f[2]
      [] OTHER -> p[2] >= f[2]

\* the point where the edge s -> p crosses the filter's line
bisect(f, s, p) ==
    LET dx == p[1] - s[1]
        dy == p[2] - s[2]
    IN  IF f[1] \in {"xlt", "xgt"}
        THEN <<f[2], s[2] + FDiv(dy * (f[2] - s[1]), dx)>>
        ELSE <<s[1] + FDiv(dx * (f[2] - s[2]), dy), f[2]>>

\* what the i-th vertex of the polygon adds to the result of one step
StepAt(polygon, f, i) ==
    LET s == IF i = 1 THEN polygon[Len(polygon)] ELSE polygon[i - 1]
        pt == polygon[i]
        sinside == is_inside(f, s)
        pinside == is_inside(f, pt)
    IN  (IF sinside # pinside THEN <<bisect(f, s, pt)>> ELSE <<>>)
        \o (IF pinside THEN <<pt>> ELSE <<>>)

RECURSIVE StepUpTo(_, _, _)
StepUpTo(polygon, f, i) ==
    IF i = 0 THEN <<>> ELSE StepUpTo(polygon, f, i - 1) \o StepAt(polygon, f, i)

\* one Sutherland-Hodgman step: the polygon cut by one edge of the rectangle
clip_to_rect_one_step(polygon, f) == StepUpTo(polygon, f, Len(polygon))

\* _finalize_polygon(result, closed_only=1) on a list of at most one
\* polygon: a polygon of fewer than 3 points is dropped, an open one closed
finalize_polygon(result) ==
    IF result = <<>> THEN <<>>
    ELSE LET polygon == result[1]
         IN  IF Len(polygon) < 3 THEN <<>>
             ELSE IF polygon[1] # polygon[Len(polygon)]
                  THEN <<Append(polygon, polygon[1])>>
                  ELSE <<polygon>>

\* "if (polygon1.size()) results.push_back(polygon1)"
pushed(polygon) == IF polygon = <<>> THEN <<>> ELSE <<polygon>>

\* _path.clip_path_to_rect(path, rect, inside=True) for a path of one
\* subpath (Path(xy, closed=True) gives the code CLOSEPOLY to the last
\* vertex, which the clipper takes as a point like the others): the list
\* of polygons, empty when nothing is left
clip_path_to_rect(polygon, rect) ==
    finalize_polygon(pushed(
        clip_to_rect_one_step(
            clip_to_rect_one_step(
                clip_to_rect_one_step(
                    clip_to_rect_one_step(polygon, <<"xlt", rect.xmax>>),
                    <<"xgt", rect.xmin>>),
                <<"ylt", rect.ymax>>),
            <<"ygt", rect.ymin>>)))

\* Path.clip_to_bbox(bbox).to_polygons(): the compound path of the clipped
\* polygons, converted back to closed polygons
clip_to_bbox_to_polygons(polygon, rect) ==
    finalize_polygon(clip_path_to_rect(polygon, rect))

Failed(kind, unit) == [kind |-> kind, xy |-> <<>>, z |-> <<>>, unit |-> unit]

\* a faulty variant: the closing vertex is left in place
strip_closure_never(first) == first

\* if np.all(poly_clipped[0] == poly_clipped[-1]): poly_clipped[:-1]
strip_closure(first) ==
    IF first[1] = first[Len(first)] THEN SubSeq(first, 1, Len(first) - 1) ELSE first

\* vertices.xyz.to(u.mm) succeeds
convertible(vertices) ==
    \A i \in 1..Len(vertices.xyz) : \A k \in 1..3 :
        to(Val(vertices.xyz[i][k]), vertices.unit, "mm").ok

\* xyz[:2].T after the conversion: the xy in fixed-point mm
mm_xy(vertices) ==
    [i \in 1..Len(vertices.xyz) |->
        <<Fix(VEval(to(Val(vertices.xyz[i][1]), vertices.unit, "mm").val)),
          Fix(VEval(to(Val(vertices.xyz[i][2]), vertices.unit, "mm").val))>>]

\* vertices.z, in the unit of the vertices
z_of(vertices) == [i \in 1..Len(vertices.xyz) |-> vertices.xyz[i][3]]

\* CartesianRepresentation(x, y, vertices.z) with x, y in mm: the three are
\* broadcast together, then must be of one physical type
representation(xy, vertices) ==
    IF Len(xy) # Len(vertices.xyz) /\ Len(xy) # 1 /\ Len(vertices.xyz) # 1
    THEN Failed("ValueError: cannot broadcast", vertices.unit)
    ELSE IF PhysType(vertices.unit) # PhysType("mm")
    THEN Failed("UnitsError: physical types", vertices.unit)
    ELSE [kind |-> "ok", xy |-> xy, z |-> z_of(vertices), unit |-> vertices.unit]

\* to_polygons()[0], the closing vertex stripped, with the Z given
first_polygon(polygons, vertices) ==
    IF polygons = <<>> THEN Failed("IndexError", vertices.unit)
    ELSE representation(strip_closure(polygons[1]), vertices)

\* a faulty variant: the bounding box is not applied
clip_shape_noclip(vertices) ==
    IF ~convertible(vertices)
    THEN Failed("ValueError: not physical length", vertices.unit)
    ELSE representation(mm_xy(vertices), vertices)

\* Chip.clip_shape(vertices); vertices is [unit, xyz], xyz a sequence of
\* points <<x, y, z>> of rationals in that unit.  The result is
\* [kind, xy, z, unit]: kind "ok" with the clipped xy in fixed-point mm and
\* z in its unit, or the exception raised.
clip_shape(vertices) ==
    IF ~convertible(vertices)
    THEN \* ValueError('vertices are not in units of physical length')
         Failed("ValueError: not physical length", vertices.unit)
    ELSE first_polygon(clip_to_bbox_to_polygons(mm_xy(vertices), clip_rect), vertices)

MaxVerts == 4

\* the corners the polygons of the model are drawn from, in grid steps:
\* three on the chip, three off it to the right, one off it at the top
GridPts == {<<-30, -10>>, <<30, -10>>, <<0, 20>>,
            <<90, -10>>, <<90, 20>>, <<100, 0>>, <<0, 60>>}

\* the grid step in each unit: close to 1 mm on the focal plane
GridStep(unit) ==
    CASE unit = "cm" -> <<1, 10>>
      [] unit = "pix" -> <<15, 1>>
      [] unit = "arcmin" -> <<1, 50>>
      [] unit = "deg" -> <<1, 3000>>
      [] unit = "rad" -> <<1, 170000>>
      [] OTHER -> <<1, 1>>

\* vertex i has the Z coordinate i grid steps
Vertices(unit, pts) ==
    [unit |-> unit,
     xyz |-> [i \in 1..Len(pts) |->
                 <<RMul(<<pts[i][1], 1>>, GridStep(unit)),
                   RMul(<<pts[i][2], 1>>, GridStep(unit)),
                   RMul(<<i, 1>>, GridStep(unit))>>]]

ClipInputs ==
    {Vertices(unit, pts) :
        unit \in Units, pts \in UNION {[1..n -> GridPts] : n \in 3..MaxVerts}}

InitClip ==
    /\ clipIn \in ClipInputs
    /\ clipOut = NotCalled
    /\ IdleUnits /\ IdleInterp /\ IdleArms /\ IdleOther

ClipShape ==
    /\ clipOut = NotCalled
    /\ clipOut' = clip_shape(clipIn)
    /\ UNCHANGED <<clipIn, unitVars, interpVars, armVars, otherVars>>

NextClip == ClipShape

SpecClip == InitClip /\ [][NextClip]_vars

\* the vertices given, as clip_shape sees them: xy in fixed-point mm
InXY == mm_xy(clipIn)

InChip(pt) ==
    /\ clip_rect.xmin <= pt[1] /\ pt[1] <= clip_rect.xmax
    /\ clip_rect.ymin <= pt[2] /\ pt[2] <= clip_rect.ymax

Range(seq) == {seq[i] : i \in 1..Len(seq)}

Called == clipOut # NotCalled

InZ == z_of(clipIn)

DistinctVertices == \A i, j \in 1..Len(InXY) : i # j => InXY[i] # InXY[j]

IsUnitError(kind) ==
    kind \in {"ValueError: not physical length", "UnitsError: physical types"}

\* C3: clip_shape given vertices in an angular unit (deg, arcmin, arcsec,
\* rad) fails with an invalid-unit error.
C3_AngularRejected ==
    (Called /\ PhysType(clipIn.unit) = "angle" /\ DistinctVertices)
    => IsUnitError(clipOut.kind)

\* C5: every vertex of a polygon that clip_shape returns lies inside the
\* chip rectangle: |x| <= NX/2 and |y| <= NY/2.
C5_ClipBounded ==
    clipOut.kind = "ok" => \A pt \in Range(clipOut.xy) : InChip(pt)

C5_Witness ==
    /\ clipOut.kind = "ok"
    /\ DistinctVertices
    /\ \E i \in 1..Len(InXY) : ~InChip(InXY[i])
    /\ \E pt \in Range(clipOut.xy) : pt \notin Range(InXY)

\* C6: clip_shape given a polygon (first vertex # last vertex, lengths in
\* a physical length unit) whose vertices all lie inside the chip
\* rectangle returns the same vertices in the same order.
C6_ClipIdempotent ==
    (/\ Called
     /\ PhysType(clipIn.unit) = "length"
     /\ InXY[1] # InXY[Len(InXY)]
     /\ \A pt \in Range(InXY) : InChip(pt))
    => (clipOut.kind = "ok" /\ clipOut.xy = InXY)

C6_Witness ==
    /\ clipOut.kind = "ok"
    /\ DistinctVertices
    /\ \A pt \in Range(InXY) : InChip(pt)
    /\ clipOut.xy = InXY

\* C7: clip_shape given a polygon that lies entirely off the chip (here:
\* to the right of it) returns an empty polygon and does not fail.
C7_EmptyResult ==
    (/\ Called
     /\ PhysType(clipIn.unit) = "length"
     /\ DistinctVertices
     /\ \A pt \in Range(InXY) : pt[1] > clip_rect.xmax)
    => (clipOut.kind = "ok" /\ clipOut.xy = <<>>)

\* C8: clip_shape given any polygon that has a vertex on the chip returns
\* a polygon, each vertex of it with a Z value, the Z values being those
\* given.
C8_ZCarried ==
    (/\ Called
     /\ PhysType(clipIn.unit) = "length"
     /\ DistinctVertices
     /\ \E pt \in Range(InXY) : InChip(pt))
    => (/\ clipOut.kind = "ok"
        /\ Len(clipOut.z) = Len(clipOut.xy)
        /\ clipOut.z = InZ)

----------------------------------------------------------------------------
(* Baffle, InjectionArm, PickoffArm.  Angles are in 1/100 degree, sines    *)
(* and cosines in 1/TrigScale.                                             *)

TrigScale == 10 * 1000

\* sin(5k degrees), k = 0..18
SinTable ==
    <<0, 872, 1736, 2588, 3420, 4226, 5000, 5736, 6428, 7071, 7660, 8192,
      8660, 9063, 9397, 9659, 9848, 9962, 10000>>

\* np.sin, on the multiples of 5 degrees and on the injector's 13.04 degrees
\* (and its complement, for the cosine)
RECURSIVE Sin(_)
Sin(a) ==
    IF a < 0 THEN -Sin(-a)
    ELSE IF a > 9000 THEN Sin(18000 - a)
    ELSE IF a = 1304 THEN 2256
    ELSE IF a = 7696 THEN 9742
    ELSE SinTable[(a \div 500) + 1]

Cos(a) == Sin(9000 - a)

\* a product of a length and a sine or cosine, to the nearest fixed point
Rnd(n) == (n + (TrigScale \div 2)) \div TrigScale

\* astropy's rotation_matrix(angle, 'z')
rotation_matrix(angle) ==
    << <<Cos(angle), Sin(angle), 0>>,
       <<-Sin(angle), Cos(angle), 0>>,
       <<0, 0, TrigScale>> >>

\* CartesianRepresentation.transform(matrix)
transform(v, m) ==
    [i \in 1..Len(v) |->
        [k \in 1..3 |-> Rnd(m[k][1] * v[i][1] + m[k][2] * v[i][2] + m[k][3] * v[i][3])]]

\* v + c for a single point c
translate(v, c) ==
    [i \in 1..Len(v) |-> [k \in 1..3 |-> v[i][k] + c[k]]]

\* v.xyz[:2].T
XY(v) == [i \in 1..Len(v) |-> <<v[i][1], v[i][2]>>]

\* fixed-point points in mm as the vertices clip_shape takes
InMm(v) ==
    [unit |-> "mm",
     xyz |-> [i \in 1..Len(v) |-> [k \in 1..3 |-> Rat(v[i][k], FixScale)]]]

PARK_POSITION == -6000
MAX_ANGLE == 5500
SHADOW_X == 40
SHADOW_Y == 49
INJECTOR_THETA == 1304

\* MIRROR_SIZE = 24.3 arcsec, as a rational number of mm
MIRROR_SIZE_mm == VEval(to(Val(Rat(243, 10)), "arcsec", "mm").val)

BAFFLE_X == SHADOW_X * FixScale
BAFFLE_Y == SHADOW_Y * FixScale
INJECTION_ROTATION_RIGHT == rotation_matrix(-INJECTOR_THETA)
INJECTION_ROTATION_LEFT == rotation_matrix(INJECTOR_THETA)
INJECTION_TRANSLATION_RIGHT == <<5750, 2320, 0>>
INJECTION_TRANSLATION_LEFT == <<-5750, 2320, 0>>

Baffle_vertices ==
    << <<-(BAFFLE_X \div 2), -(BAFFLE_Y \div 2), 0>>,
       <<BAFFLE_X \div 2, -(BAFFLE_Y \div 2), 0>>,
       <<BAFFLE_X \div 2, BAFFLE_Y \div 2, 0>>,
       <<-(BAFFLE_X \div 2), BAFFLE_Y \div 2, 0>> >>

\* v.transform(self.INJECTION_ROTATION_RIGHT) + self.INJECTION_TRANSLATION_RIGHT
right_injection_pose ==
    translate(transform(Baffle_vertices, INJECTION_ROTATION_RIGHT),
              INJECTION_TRANSLATION_RIGHT)

\* v.transform(self.INJECTION_ROTATION_LEFT) + self.INJECTION_TRANSLATION_LEFT
left_injection_pose ==
    translate(transform(Baffle_vertices, INJECTION_ROTATION_LEFT),
              INJECTION_TRANSLATION_LEFT)

\* Baffle.right_injection_vertices: what computing the property gives
\* (the pose is bound as a value, evaluated once)
right_injection_vertices ==
    CHOOSE r \in {clip_shape(v) : v \in {InMm(right_injection_pose)}} : TRUE

\* Baffle.left_injection_vertices
left_injection_vertices ==
    CHOOSE r \in {clip_shape(v) : v \in {InMm(left_injection_pose)}} : TRUE

\* the side values of the model, and str.lower on them
Sides == {"left", "right", "guide", "LEFT", "Right", "Guide", "up"}

lower(value) ==
    CASE value = "LEFT" -> "left"
      [] value = "Right" -> "right"
      [] value = "Guide" -> "guide"
      [] OTHER -> value

\* a faulty variant: the setter does not look at the value
side_accepted_any(value) == value = value

\* the check of the side setter
side_accepted(value) == lower(value) \in {"left", "right", "guide"}

\* InjectionArm.position
InjectionArm_position(side) ==
    IF side = "left" THEN INJECTION_TRANSLATION_LEFT
    ELSE IF side = "guide"
    THEN LET theta == PARK_POSITION
             r == 25472
             off == 27000
             d == off - r
         IN  <<Rnd(r * Sin(theta)), d + Rnd(r * (TrigScale - Cos(theta))), 0>>
    ELSE INJECTION_TRANSLATION_RIGHT

\* matplotlib patches
Polygon(xy) ==
    [shape |-> "Polygon", xy |-> xy, centre |-> <<0, 0>>, radius |-> 0,
     theta1 |-> 0, theta2 |-> 0, width |-> 0, height |-> 0]

Circle(centre, radius) ==
    [shape |-> "Circle", xy |-> <<>>, centre |-> centre, radius |-> radius,
     theta1 |-> 0, theta2 |-> 0, width |-> 0, height |-> 0]

Wedge(centre, radius, theta1, theta2, width) ==
    [shape |-> "Wedge", xy |-> <<>>, centre |-> centre, radius |-> radius,
     theta1 |-> theta1, theta2 |-> theta2, width |-> width, height |-> 0]

\* Rectangle(ll, width, height): ll is kept as the one point of xy
Rectangle(ll, width, height) ==
    [shape |-> "Rectangle", xy |-> <<ll>>, centre |-> <<0, 0>>, radius |-> 0,
     theta1 |-> 0, theta2 |-> 0, width |-> width, height |-> height]

\* Chip.to_patches() with unit = u.mm
Chip_to_patches ==
    <<Rectangle(<<Fix(RDiv(RNeg(Chip_NX), <<2, 1>>)), Fix(RDiv(RNeg(Chip_NY), <<2, 1>>))>>,
                Fix(Chip_NX), Fix(Chip_NY))>>

\* the guide pose of the baffle: rotated by -PARK_POSITION, moved to centre
guide_baffle(centre) ==
    XY(translate(transform(Baffle_vertices, rotation_matrix(-PARK_POSITION)), centre))

\* the field-stop disk: Circle(centre.xyz[:2], MIRROR_SIZE / 2)
fov_patch(centre) ==
    Circle(<<centre[1], centre[2]>>, Fix(RDiv(MIRROR_SIZE_mm, <<2, 1>>)))

\* a faulty variant: the Baffle keeps one cache for both sides
lazy_vertices_onecache(a) ==
    IF a.b.left # Unset THEN a.b.left
    ELSE IF a.b.right # Unset THEN a.b.right
    ELSE IF a.side = "left" THEN left_injection_vertices
    ELSE right_injection_vertices

\* self.b.left_injection_vertices or self.b.right_injection_vertices: a
\* lazyproperty, computed at the first access
lazy_vertices(a) ==
    IF a.side = "left"
    THEN (IF a.b.left = Unset THEN left_injection_vertices ELSE a.b.left)
    ELSE (IF a.b.right = Unset THEN right_injection_vertices ELSE a.b.right)

\* the Baffle of the arm once the property gave v (or raised)
cached(a, v) ==
    IF v.kind # "ok" THEN a.b
    ELSE IF a.side = "left" THEN [a.b EXCEPT !.left = v]
    ELSE [a.b EXCEPT !.right = v]

\* [baffle, fov] for a pose v clipped to the chip
cropped_patches(a, v) ==
    IF v.kind # "ok" THEN [kind |-> v.kind, val |-> <<>>, b |-> cached(a, v)]
    ELSE [kind |-> "ok",
          val |-> <<Polygon(v.xy), fov_patch(InjectionArm_position(a.side))>>,
          b |-> cached(a, v)]

\* [baffle, fov] for the guide pose
guide_patches(a, centre) ==
    [kind |-> "ok", val |-> <<Polygon(guide_baffle(centre)), fov_patch(centre)>>,
     b |-> a.b]

\* the guide pose put through Chip.clip_shape
guide_cropped(centre) ==
    CHOOSE r \in {clip_shape(v) : v \in
                    {InMm(translate(transform(Baffle_vertices,
                                    rotation_matrix(-PARK_POSITION)), centre))}} : TRUE

\* a faulty variant: the guide pose is cropped to the chip like the other two
InjectionArm_to_patches_allcropped(a) ==
    IF a.side # "guide"
    THEN cropped_patches(a, lazy_vertices(a))
    ELSE cropped_patches([a EXCEPT !.b = NoArm.b],
                         guide_cropped(InjectionArm_position(a.side)))

\* InjectionArm.to_patches() with unit = u.mm, on the arm a: [kind, val, b]
\* with val the patches [baffle, fov] and b the Baffle of the arm after
\* the call
InjectionArm_to_patches(a) ==
    IF a.side # "guide"
    THEN cropped_patches(a, lazy_vertices(a))
    ELSE guide_patches(a, InjectionArm_position(a.side))

\* a faulty variant: the angle is held inside the patrol range
PickoffArm_position_clamped(theta) ==
    LET r == 270 * FixScale
        held == IF theta < PARK_POSITION THEN PARK_POSITION
                ELSE IF theta > MAX_ANGLE THEN MAX_ANGLE ELSE theta
    IN  <<Rnd(r * Sin(held)), Rnd(r * (TrigScale - Cos(held))), 0>>

\* PickoffArm.position(theta)
PickoffArm_position(theta) ==
    LET r == 270 * FixScale
    IN  <<Rnd(r * Sin(theta)), Rnd(r * (TrigScale - Cos(theta))), 0>>

\* PickoffArm.to_patches(theta) with unit = u.mm: [arc, baffle, pickoff]
PickoffArm_to_patches(theta) ==
    LET centre == PickoffArm_position(theta)
        radius == (270 * FixScale) + Fix(RDiv(MIRROR_SIZE_mm, <<2, 1>>))
        arc == Wedge(<<0, 270 * FixScale>>, radius,
                     PARK_POSITION - 9000, MAX_ANGLE - 9000, Fix(MIRROR_SIZE_mm))
        pickoff == Circle(<<centre[1], centre[2]>>, Fix(RDiv(MIRROR_SIZE_mm, <<2, 1>>)))
        baffle_cart == translate(transform(Baffle_vertices, rotation_matrix(-theta)),
                                 centre)
    IN  <<arc, Polygon(XY(baffle_cart)), pickoff>>

\* the patches of an InjectionArm(side) made for the call, or the error
new_arm_patches(side) ==
    IF side_accepted(side)
    THEN InjectionArm_to_patches([made |-> TRUE, side |-> side, b |-> NoArm.b])
    ELSE [kind |-> "ValueError: side must be left or right", val |-> <<>>, b |-> NoArm.b]

\* c + poa + ia, and the array given to pc.set_array
collection(c, poa, ia) ==
    IF ia.kind # "ok" THEN [kind |-> ia.kind, patches |-> <<>>, array |-> <<>>]
    ELSE [kind |-> "ok", patches |-> c \o poa \o ia.val, array |-> <<0, 1, 2, 3, 4, 5>>]

\* a faulty variant: the injection arm's patches are put before the pickoff arm's
plot_compo_swapped(pickoff_angle, injection_side) ==
    collection(Chip_to_patches, new_arm_patches(injection_side).val,
               [kind |-> new_arm_patches(injection_side).kind,
                val |-> PickoffArm_to_patches(pickoff_angle)])

\* plot_compo(pickoff_angle, injection_side): the patches of the
\* PatchCollection added to the axis and the array that colours them
plot_compo(pickoff_angle, injection_side) ==
    collection(Chip_to_patches, PickoffArm_to_patches(pickoff_angle),
               new_arm_patches(injection_side))

MaxTheta5 == 18

\* the pickoff angles of the model: the multiples of 5 degrees
PickoffThetas == {500 * k : k \in -MaxTheta5..MaxTheta5}

\* the pickoff angles of the plots of the model: the multiples of 15 degrees
PlotThetas == {theta \in PickoffThetas : theta % 1500 = 0}

InitArms ==
    /\ arm = NoArm
    /\ ret = NoCall
    /\ IdleUnits /\ IdleInterp /\ IdleClip /\ IdleOther

\* InjectionArm(value): __init__ makes a Baffle and sets the side
NewInjectionArm(value) ==
    /\ IF side_accepted(value)
       THEN /\ arm' = [made |-> TRUE, side |-> value,
                       b |-> [right |-> Unset, left |-> Unset]]
            /\ ret' = [NoCall EXCEPT !.op = "InjectionArm", !.side = value]
       ELSE /\ ret' = [NoCall EXCEPT !.op = "InjectionArm", !.side = value,
                                     !.kind = "ValueError: side must be left or right"]
            /\ UNCHANGED arm
    /\ UNCHANGED <<unitVars, interpVars, clipVars, otherVars>>

\* a faulty variant: the value stored before it is validated
SetSide_overwrite(value) ==
    /\ arm.made
    /\ arm' = [arm EXCEPT !.side = value]
    /\ ret' = [NoCall EXCEPT !.op = "side", !.side = value,
                             !.kind = IF side_accepted(value) THEN "ok"
                                      ELSE "ValueError: side must be left or right"]
    /\ UNCHANGED <<unitVars, interpVars, clipVars, otherVars>>

\* arm.side = value
SetSide(value) ==
    /\ arm.made
    /\ IF side_accepted(value)
       THEN /\ arm' = [arm EXCEPT !.side = value]
            /\ ret' = [NoCall EXCEPT !.op = "side", !.side = value]
       ELSE /\ ret' = [NoCall EXCEPT !.op = "side", !.side = value,
                                     !.kind = "ValueError: side must be left or right"]
            /\ UNCHANGED arm
    /\ UNCHANGED <<unitVars, interpVars, clipVars, otherVars>>

\* arm.position
Position ==
    /\ arm.made
    /\ ret' = [NoCall EXCEPT !.op = "InjectionArm.position", !.side = arm.side,
                             !.position = InjectionArm_position(arm.side)]
    /\ UNCHANGED <<arm, unitVars, interpVars, clipVars, otherVars>>

\* arm.to_patches()
ToPatches ==
    /\ arm.made
    /\ \E r \in {InjectionArm_to_patches(arm)} :
           /\ ret' = [NoCall EXCEPT !.op = "InjectionArm.to_patches",
                                    !.side = arm.side, !.kind = r.kind,
                                    !.patches = r.val]
           /\ arm' = [arm EXCEPT !.b = r.b]
    /\ UNCHANGED <<unitVars, interpVars, clipVars, otherVars>>

\* PickoffArm().position(theta)
PickoffPosition(theta) ==
    /\ ret' = [NoCall EXCEPT !.op = "PickoffArm.position", !.theta = theta,
                             !.position = PickoffArm_position(theta)]
    /\ UNCHANGED <<arm, unitVars, interpVars, clipVars, otherVars>>

\* PickoffArm().to_patches(theta)
PickoffToPatches(theta) ==
    /\ ret' = [NoCall EXCEPT !.op = "PickoffArm.to_patches", !.theta = theta,
                             !.patches = PickoffArm_to_patches(theta)]
    /\ UNCHANGED <<arm, unitVars, interpVars, clipVars, otherVars>>

\* plot_compo(theta, side)
PlotCompo(theta, side) ==
    /\ \E r \in {plot_compo(theta, side)} :
           ret' = [NoCall EXCEPT !.op = "plot_compo", !.theta = theta, !.side = side,
                                 !.kind = r.kind, !.patches = r.patches,
                                 !.array = r.array]
    /\ UNCHANGED <<arm, unitVars, interpVars, clipVars, otherVars>>

NextArms ==
    \/ \E value \in Sides : NewInjectionArm(value)
    \/ \E value \in Sides : SetSide(value)
    \/ Position
    \/ ToPatches
    \/ \E theta \in PickoffThetas : PickoffPosition(theta)
    \/ \E theta \in PickoffThetas : PickoffToPatches(theta)
    \/ \E theta \in PlotThetas, side \in Sides : PlotCompo(theta, side)

SpecArms == InitArms /\ [][NextArms]_vars

\* the pickoff angles of the patrol range
InPatrolRange(theta) == PARK_POSITION <= theta /\ theta <= MAX_ANGLE

\* C9: the baffle of the right-injection pose, of the left-injection pose
\* and of the pickoff pose (for every angle of the patrol range) has all
\* its vertices inside the chip rectangle.
C9_PosesClipped ==
    /\ (ret.op = "InjectionArm.to_patches" /\ arm.side # "guide")
       => (ret.kind = "ok" /\ \A pt \in Range(ret.patches[1].xy) : InChip(pt))
    /\ (ret.op = "PickoffArm.to_patches" /\ InPatrolRange(ret.theta))
       => (ret.kind = "ok" /\ \A pt \in Range(ret.patches[2].xy) : InChip(pt))

\* the baffle rectangle turned by 60 degrees about z and moved to the guide
\* centre (-220.59, 142.64) mm, in fixed-point mm
GuidePoseExpected ==
    <<<<-25181, 14771>>, <<-23181, 11307>>, <<-18937, 13757>>, <<-20937, 17221>>>>

\* C10: for side = guide, the baffle that InjectionArm.to_patches returns
\* is the raw baffle rectangle rotated by minus the park position and
\* moved to the guide centre; it is not clipped, so its vertices outside
\* the chip rectangle are kept.
C10_GuideBypass ==
    (ret.op = "InjectionArm.to_patches" /\ arm.side = "guide")
    => (/\ ret.kind = "ok"
        /\ ret.patches[1].shape = "Polygon"
        /\ ret.patches[1].xy = GuidePoseExpected)

C10_Witness ==
    /\ ret.op = "InjectionArm.to_patches"
    /\ arm.side = "guide"
    /\ ret.kind = "ok"
    /\ Len(ret.patches[1].xy) = Len(Baffle_vertices)
    /\ \E pt \in Range(ret.patches[1].xy) : ~InChip(pt)

----------------------------------------------------------------------------
(* InjectionArm sides and PickoffArm.position.                             *)

\* the spellings of left, right and guide among the side values of the model
SideSpellings == {"left", "right", "guide", "LEFT", "Right", "Guide"}

InvalidSide == "ValueError: side must be left or right"

\* C11: constructing an InjectionArm with a side value that is not left,
\* right or guide (in any case) fails with the invalid-side error and
\* yields no arm: the arm of the program is as it was.
C11_InvalidSideRejected ==
    [][(ret'.op = "InjectionArm" /\ ret'.side \notin SideSpellings)
       => (ret'.kind = InvalidSide /\ arm' = arm)]_vars

C11_Witness ==
    /\ ret.op = "InjectionArm"
    /\ ret.side = "up"
    /\ ret.kind = InvalidSide
    /\ ~arm.made

\* the lower-case form of a spelling
LowerCase(side) ==
    IF side \in {"left", "LEFT"} THEN "left"
    ELSE IF side \in {"guide", "Guide"} THEN "guide"
    ELSE "right"

\* C12: an arm whose side is a case variant of left, right or guide
\* behaves as with the lower-case form: position and to_patches return
\* what they return for the lower-case side.
C12_CaseInsensitive ==
    /\ ret.op = "InjectionArm.position"
       => ret.position = InjectionArm_position(LowerCase(ret.side))
    /\ (ret.op = "InjectionArm.to_patches" /\ ret.kind = "ok")
       => ret.patches =
            InjectionArm_to_patches([made |-> TRUE, side |-> LowerCase(ret.side),
                                     b |-> NoArm.b]).val

\* r*sin(theta) and r*(1 - cos(theta)) for r = 270 mm, in fixed-point mm,
\* for theta = 5k degrees, k = -19..19 (entry k + 20)
PickoffExpectedX ==
    <<-26897, -27000, -26897, -26590, -26080, -25372, -24470, -23383, -22117,
      -20683, -19092, -17355, -15487, -13500, -11411, -9235, -6988, -4689,
      -2353, 0, 2353, 4689, 6988, 9235, 11411, 13500, 15487, 17355, 19092,
      20683, 22117, 23383, 24470, 25372, 26080, 26590, 26897, 27000, 26897>>

PickoffExpectedY ==
    <<29353, 27000, 24647, 22311, 20012, 17765, 15589, 13500, 11513, 9645,
      7908, 6317, 4883, 3617, 2530, 1628, 920, 410, 103, 0, 103, 410, 920,
      1628, 2530, 3617, 4883, 6317, 7908, 9645, 11513, 13500, 15589, 17765,
      20012, 22311, 24647, 27000, 29353>>

\* within 0.02 mm
Near(a, b) == Abs(a - b) <= 2

\* C13: PickoffArm.position(theta) is (r sin(theta), r (1 - cos(theta)), 0)
\* with r = 270 mm, at every angle, inside the patrol range or not:
\* (0, 0, 0) at 0 degrees and (270, 270, 0) mm at 90 degrees.
C13_PickoffPosition ==
    ret.op = "PickoffArm.position"
    => /\ Near(ret.position[1], PickoffExpectedX[(ret.theta \div 500) + 20])
       /\ Near(ret.position[2], PickoffExpectedY[(ret.theta \div 500) + 20])
       /\ ret.position[3] = 0
       /\ (ret.theta = 0 => ret.position = <<0, 0, 0>>)
       /\ (ret.theta = 9000 => ret.position = <<270 * FixScale, 270 * FixScale, 0>>)

C13_Witness ==
    /\ ret.op = "PickoffArm.position"
    /\ ret.theta = 9000
    /\ ~InPatrolRange(ret.theta)
    /\ ret.position = <<270 * FixScale, 270 * FixScale, 0>>

----------------------------------------------------------------------------
(* target_lens_position.  The table of data/compo_lens_offset.csv is data  *)
(* loaded when the module is imported: a sequence of <<po_theta, lens_off>> *)
(* in 1/100 degree and 1/FixScale mm, sorted by po_theta.  Results are      *)
(* exact rationals, in 1/FixScale mm.                                       *)

LENS_REF_POSITION == 20

\* the tables of the model: from 0 up, across 0, and starting above 0
LensTables ==
    { << <<0, 0>>, <<3000, 150>>, <<6000, 400>> >>,
      << <<-6000, 500>>, <<0, 0>>, <<5500, 300>> >>,
      << <<1000, 20>>, <<2000, 10>>, <<4000, 90>> >> }

\* the segment of the table that interp1d uses at x: the one that holds x,
\* or the first or the last one (fill_value='extrapolate')
Segment(table, x) ==
    IF x <= table[1][1] THEN 1
    ELSE IF x >= table[Len(table)][1] THEN Len(table) - 1
    ELSE CHOOSE i \in 1..(Len(table) - 1) : table[i][1] <= x /\ x < table[i + 1][1]

RAdd(a, b) == Rat((a[1] * b[2]) + (b[1] * a[2]), a[2] * b[2])

\* _g = interp1d(po_theta, lens_off, bounds_error=False,
\* fill_value='extrapolate'): linear
interp_g(table, x) ==
    RAdd(<<table[Segment(table, x)][2], 1>>,
         Rat((x - table[Segment(table, x)][1])
               * (table[Segment(table, x) + 1][2] - table[Segment(table, x)][2]),
             table[Segment(table, x) + 1][1] - table[Segment(table, x)][1]))

\* a faulty variant: the offset is taken at theta, not at abs(theta)
target_lens_position_signed(table, pickoff_theta, guiding) ==
    RAdd(<<LENS_REF_POSITION * FixScale, 1>>, interp_g(table, pickoff_theta))

\* target_lens_position(pickoff_theta, guiding=False)
target_lens_position(table, pickoff_theta, guiding) ==
    RAdd(<<LENS_REF_POSITION * FixScale, 1>>, interp_g(table, Abs(pickoff_theta)))

MaxLensCalls == 2

\* the pickoff angles of the calls of the model
LensThetas == {-6000, -3000, -1500, 0, 1500, 3000, 6000}

InitLens ==
    /\ lens \in LensTables
    /\ tlpLog = <<>>
    /\ IdleUnits /\ IdleInterp /\ IdleClip /\ IdleArms /\ IdleCorba /\ IdleFifo
    /\ IdleServer

TargetLensPosition(theta, guiding) ==
    /\ Len(tlpLog) < MaxLensCalls
    /\ tlpLog' = Append(tlpLog, [theta |-> theta, guiding |-> guiding,
                                 result |-> target_lens_position(lens, theta, guiding)])
    /\ UNCHANGED <<lens, unitVars, interpVars, clipVars, armVars, corbaVars, fifoVars,
                 serverVars>>

NextLens == \E theta \in LensThetas, guiding \in BOOLEAN : TargetLensPosition(theta, guiding)

SpecLens == InitLens /\ [][NextLens]_vars

\* the offset the table gives at a sampled angle
SampledAt(table, x) == {table[i][2] : i \in {j \in 1..Len(table) : table[j][1] = x}}

\* C14: target_lens_position(theta, guiding) is the reference length plus
\* the offset of the table at |theta|: two calls with angles of the same
\* size return the same length, whatever their sign and their guiding
\* flag, and at an angle whose size is sampled in the table the result is
\* the reference length plus the offset tabulated there.
C14_LensPosition ==
    /\ \A i, j \in 1..Len(tlpLog) :
           Abs(tlpLog[i].theta) = Abs(tlpLog[j].theta)
           => tlpLog[i].result = tlpLog[j].result
    /\ \A i \in 1..Len(tlpLog) :
           \A off \in SampledAt(lens, Abs(tlpLog[i].theta)) :
               tlpLog[i].result = <<(LENS_REF_POSITION * FixScale) + off, 1>>

C14_Witness ==
    /\ Len(tlpLog) = 2
    /\ tlpLog[1].theta = -tlpLog[2].theta
    /\ tlpLog[1].theta = 3000
    /\ tlpLog[1].guiding # tlpLog[2].guiding
    /\ tlpLog[1].result = tlpLog[2].result
    /\ tlpLog[1].result = <<2150, 1>>

----------------------------------------------------------------------------
(* plot_compo and the arms' caches.                                        *)

\* C15: for every pickoff angle and every side the InjectionArm accepts,
\* plot_compo gives six shapes: the chip outline, the pickoff arc, the
\* pickoff baffle, the pickoff mirror disk (at the pickoff position), the
\* injection baffle and the injection field-stop disk, shape i with
\* category i of 0..5.
C15_SixShapes ==
    (ret.op = "plot_compo" /\ ret.side \in SideSpellings)
    => /\ ret.kind = "ok"
       /\ [i \in 1..Len(ret.patches) |-> ret.patches[i].shape]
            = <<"Rectangle", "Wedge", "Polygon", "Circle", "Polygon", "Circle">>
       /\ ret.patches[1].width = 2 * clip_rect.xmax
       /\ Len(ret.patches[3].xy) = 4
       /\ Len(ret.patches[5].xy) = 4
       /\ Near(ret.patches[4].centre[1], PickoffExpectedX[(ret.theta \div 500) + 20])
       /\ Near(ret.patches[4].centre[2], PickoffExpectedY[(ret.theta \div 500) + 20])
       /\ ret.patches[4].radius = ret.patches[6].radius
       /\ ret.patches[6].centre \in {<<5750, 2320>>, <<-5750, 2320>>, <<-22059, 14264>>}
       /\ ret.array = <<0, 1, 2, 3, 4, 5>>

C15_Witness ==
    /\ ret.op = "plot_compo"
    /\ ret.side = "guide"
    /\ ret.theta = 4500
    /\ Len(ret.patches) = 6
    /\ ret.array = <<0, 1, 2, 3, 4, 5>>

\* an InjectionArm just constructed with this side
FreshArm(side) == [made |-> TRUE, side |-> side, b |-> NoArm.b]

\* C16: whatever the calls made before on the InjectionArm (sides set,
\* positions and patches asked for, vertices cached), position and
\* to_patches return what they return on an arm just constructed with the
\* side the arm has now; PickoffArm calls return what the angle alone
\* determines.
C16_NoHistory ==
    /\ ret.op = "InjectionArm.to_patches"
       => /\ ret.side = arm.side
          /\ ret.kind = InjectionArm_to_patches(FreshArm(arm.side)).kind
          /\ ret.patches = InjectionArm_to_patches(FreshArm(arm.side)).val
    /\ ret.op = "InjectionArm.position"
       => /\ ret.side = arm.side
          /\ ret.position = InjectionArm_position(FreshArm(arm.side).side)
    /\ ret.op = "PickoffArm.to_patches"
       => ret.patches = PickoffArm_to_patches(ret.theta)
    /\ ret.op = "PickoffArm.position"
       => ret.position = PickoffArm_position(ret.theta)

C16_Witness ==
    /\ ret.op = "InjectionArm.to_patches"
    /\ ret.kind = "ok"
    /\ arm.side = "right"
    /\ arm.b.left # Unset
    /\ arm.b.right # Unset
    /\ ret.patches[1].xy = arm.b.right.xy
    /\ arm.b.right.xy # arm.b.left.xy

----------------------------------------------------------------------------
(* gtc/corba.py: CORBAConnection and its three state classes.  A           *)
(* connection is [state, orb, rootContext]; what the ORB does in a call    *)
(* is an input env: "ok", "TRANSIENT" (CORBA.TRANSIENT is raised), "None"  *)
(* (_narrow returns None) or "other" (another exception is raised).  A     *)
(* call gives [conn, kind, object]: the connection after it, "ok" or the   *)
(* exception raised, and whether an object is returned.                    *)

OrbOutcomes == {"ok", "TRANSIENT", "None", "other"}

Raised(c, kind) == [conn |-> c, kind |-> kind, object |-> FALSE]

\* RawCORBAState.init_orb
RawCORBAState_init_orb(c, env) ==
    IF env \in {"TRANSIENT", "other"}
    THEN Raised(c, "CORBA exception")     \* CORBA.ORB_init raises
    ELSE [conn |-> [c EXCEPT !.orb = TRUE, !.state = "Initialised"],
          kind |-> "ok", object |-> FALSE]

\* RawCORBAState.resolve_nameservice
RawCORBAState_resolve_nameservice(c, env) == Raised(c, "RuntimeError")

\* RawCORBAState.get_object
RawCORBAState_get_object(c, env) == Raised(c, "RuntimeError")

\* InitialisedCORBAState.init_orb
InitialisedCORBAState_init_orb(c, env) == Raised(c, "RuntimeError")

\* a faulty variant: the state is changed before the context is looked at
InitialisedCORBAState_resolve_nameservice_early(c, env) ==
    IF env = "TRANSIENT" THEN Raised(c, "IOError")
    ELSE IF env = "other" THEN Raised(c, "CORBA exception")
    ELSE IF env = "None" THEN Raised([c EXCEPT !.state = "Ready"], "IOError")
    ELSE [conn |-> [c EXCEPT !.rootContext = TRUE, !.state = "Ready"],
          kind |-> "ok", object |-> FALSE]

\* InitialisedCORBAState.resolve_nameservice
InitialisedCORBAState_resolve_nameservice(c, env) ==
    IF env = "TRANSIENT" THEN Raised(c, "IOError")
    ELSE IF env = "other" THEN Raised(c, "CORBA exception")
    ELSE IF env = "None" THEN Raised(c, "IOError")
    ELSE [conn |-> [c EXCEPT !.rootContext = TRUE, !.state = "Ready"],
          kind |-> "ok", object |-> FALSE]

\* a faulty variant: the object is looked up without the name service
InitialisedCORBAState_get_object_unresolved(c, env) ==
    IF env = "ok" THEN [conn |-> c, kind |-> "ok", object |-> TRUE]
    ELSE Raised(c, "IOError")

\* InitialisedCORBAState.get_object
InitialisedCORBAState_get_object(c, env) == Raised(c, "RuntimeError")

\* a faulty variant: a ready connection can be initialised again
ReadyCORBAState_init_orb_again(c, env) ==
    IF env \in {"TRANSIENT", "other"} THEN Raised(c, "CORBA exception")
    ELSE [conn |-> [c EXCEPT !.state = "Initialised"], kind |-> "ok", object |-> FALSE]

\* ReadyCORBAState.init_orb
ReadyCORBAState_init_orb(c, env) == Raised(c, "RuntimeError")

\* ReadyCORBAState.resolve_nameservice
ReadyCORBAState_resolve_nameservice(c, env) == Raised(c, "RuntimeError")

\* ReadyCORBAState.get_object
ReadyCORBAState_get_object(c, env) ==
    IF env = "TRANSIENT" THEN Raised(c, "IOError")
    ELSE IF env = "other" THEN Raised(c, "CORBA exception")
    ELSE IF env = "None" THEN Raised(c, "IOError")
    ELSE [conn |-> c, kind |-> "ok", object |-> TRUE]

\* CORBAConnection.init_orb: delegates to the state class
CORBAConnection_init_orb(c, env) ==
    CASE c.state = "Raw" -> RawCORBAState_init_orb(c, env)
      [] c.state = "Initialised" -> InitialisedCORBAState_init_orb(c, env)
      [] OTHER -> ReadyCORBAState_init_orb(c, env)

\* CORBAConnection.resolve_nameservice
CORBAConnection_resolve_nameservice(c, env) ==
    CASE c.state = "Raw" -> RawCORBAState_resolve_nameservice(c, env)
      [] c.state = "Initialised" -> InitialisedCORBAState_resolve_nameservice(c, env)
      [] OTHER -> ReadyCORBAState_resolve_nameservice(c, env)

\* CORBAConnection.get_object
CORBAConnection_get_object(c, env) ==
    CASE c.state = "Raw" -> RawCORBAState_get_object(c, env)
      [] c.state = "Initialised" -> InitialisedCORBAState_get_object(c, env)
      [] OTHER -> ReadyCORBAState_get_object(c, env)

MaxCorbaCalls == 4

InitCorba ==
    /\ IdleCorba
    /\ IdleUnits /\ IdleInterp /\ IdleClip /\ IdleArms /\ IdleLens /\ IdleFifo
    /\ IdleServer

\* a call op on the connection with the outcome r
Called_on_conn(op, r) ==
    /\ Len(corbaLog) < MaxCorbaCalls
    /\ conn' = r.conn
    /\ corbaRet' = [op |-> op, was |-> conn.state, kind |-> r.kind, object |-> r.object]
    /\ corbaLog' = Append(corbaLog, [op |-> op, kind |-> r.kind])
    /\ UNCHANGED <<unitVars, interpVars, clipVars, armVars, lensVars, fifoVars,
                 serverVars>>

\* conn.init_orb()
InitOrb ==
    \E env \in OrbOutcomes : Called_on_conn("init_orb", CORBAConnection_init_orb(conn, env))

\* conn.resolve_nameservice()
ResolveNameservice ==
    \E env \in OrbOutcomes :
        Called_on_conn("resolve_nameservice", CORBAConnection_resolve_nameservice(conn, env))

\* conn.get_object(binding_name, cls)
GetObject ==
    \E env \in OrbOutcomes :
        Called_on_conn("get_object", CORBAConnection_get_object(conn, env))

NextCorba == InitOrb \/ ResolveNameservice \/ GetObject

SpecCorba == InitCorba /\ [][NextCorba]_vars

\* call i of the log is preceded by a successful call op
OkBefore(op, i) ==
    \E j \in 1..(i - 1) : corbaLog[j].op = op /\ corbaLog[j].kind = "ok"

\* call i of the log is preceded by a successful init_orb and, after it, a
\* successful resolve_nameservice
InOrderBefore(i) ==
    \E j, k \in 1..(i - 1) :
        /\ j < k
        /\ corbaLog[j].op = "init_orb" /\ corbaLog[j].kind = "ok"
        /\ corbaLog[k].op = "resolve_nameservice" /\ corbaLog[k].kind = "ok"

\* C17: get_object returns an object only on a Ready connection; the
\* connection is Ready only after a successful init_orb followed by a
\* successful resolve_nameservice; a resolve_nameservice with no
\* successful init_orb before it, and a get_object without the two in
\* order before it, fail with RuntimeError.
C17_ReadyInOrder ==
    /\ (corbaRet.op = "get_object" /\ (corbaRet.object \/ corbaRet.kind = "ok"))
       => (corbaRet.was = "Ready" /\ InOrderBefore(Len(corbaLog)))
    /\ conn.state = "Ready" => InOrderBefore(Len(corbaLog) + 1)
    /\ \A i \in 1..Len(corbaLog) :
           (corbaLog[i].op = "resolve_nameservice" /\ ~OkBefore("init_orb", i))
           => corbaLog[i].kind = "RuntimeError"
    /\ \A i \in 1..Len(corbaLog) :
           (corbaLog[i].op = "get_object" /\ ~InOrderBefore(i))
           => corbaLog[i].kind = "RuntimeError"

C17_Witness ==
    /\ corbaRet.op = "get_object"
    /\ corbaRet.object
    /\ conn.state = "Ready"
    /\ Len(corbaLog) = 4
    /\ corbaLog[1].op = "get_object" /\ corbaLog[1].kind = "RuntimeError"

\* C18: a call on the connection that fails leaves the connection as it
\* was: its state, its orb and its root context.
C18_FailureKeepsState ==
    [][(Len(corbaLog') > Len(corbaLog) /\ corbaRet'.kind # "ok") => conn' = conn]_vars

C18_Witness ==
    /\ Len(corbaLog) = 3
    /\ corbaLog[2].op = "resolve_nameservice" /\ corbaLog[2].kind = "IOError"
    /\ corbaLog[3].op = "resolve_nameservice" /\ corbaLog[3].kind = "ok"
    /\ conn.state = "Ready"

Rank(state) ==
    CASE state = "Raw" -> 0
      [] state = "Initialised" -> 1
      [] OTHER -> 2

\* C19: the state never moves back (Raw, then Initialised, then Ready),
\* and after a successful init_orb every later init_orb raises
\* RuntimeError, likewise for resolve_nameservice, so each succeeds at
\* most once.
C19_ForwardOnly ==
    /\ [][Rank(conn'.state) >= Rank(conn.state)]_vars
    /\ [](\A i \in 1..Len(corbaLog) :
             (corbaLog[i].op \in {"init_orb", "resolve_nameservice"}
              /\ OkBefore(corbaLog[i].op, i))
             => corbaLog[i].kind = "RuntimeError")

C19_Witness ==
    /\ Len(corbaLog) = 4
    /\ corbaLog[1].op = "init_orb" /\ corbaLog[1].kind = "ok"
    /\ corbaLog[2].op = "resolve_nameservice" /\ corbaLog[2].kind = "ok"
    /\ corbaLog[3].op = "init_orb" /\ corbaLog[3].kind = "RuntimeError"
    /\ corbaLog[4].op = "resolve_nameservice" /\ corbaLog[4].kind = "RuntimeError"
    /\ conn.state = "Ready"

----------------------------------------------------------------------------
(* misc.py: FifoThread.  A thread is [name, pc, outcome]: pc is "target"   *)
(* (started, Thread.run calls the target), "caught" (in the except clause, *)
(* before the traceback is formatted), "formatted" (before fifo.put) or    *)
(* "done"; outcome is how the target ended.  fifo.put is atomic            *)
(* (queue.Queue locks), and the fifo has no size limit.                    *)

NThreads == 3

ThreadNames == {"a", "b"}

\* how a target ends: it returns, raises an Exception, or raises a
\* BaseException that is no Exception (SystemExit)
TargetOutcomes == {"returns", "Exception", "SystemExit"}

\* a faulty variant: the run of threading.Thread, which traps nothing
trapped_never(outcome) == outcome # outcome

\* except Exception: the outcomes of the target that run traps
trapped(outcome) == outcome = "Exception"

\* (self.name, error, tback)
entry(t) == [name |-> t.name, error |-> "Exception: raised in the target",
             tback |-> <<t.name, " Traceback (most recent call last):\n">>]

\* self.fifo.put(item)
fifo_put(queue, item) == Append(queue, item)

InitFifo ==
    /\ thr \in UNION {[1..n -> [name : ThreadNames, pc : {"target"}, outcome : {"none"}]] :
                        n \in 1..NThreads}
    /\ fifo = <<>>
    /\ IdleUnits /\ IdleInterp /\ IdleClip /\ IdleArms /\ IdleLens /\ IdleCorba
    /\ IdleServer

\* threading.Thread.run(self): the target runs and ends
RunTarget(i) ==
    /\ i <= Len(thr)
    /\ thr[i].pc = "target"
    /\ \E outcome \in TargetOutcomes :
           thr' = [thr EXCEPT ![i].outcome = outcome,
                              ![i].pc = IF trapped(outcome) THEN "caught" ELSE "done"]
    /\ UNCHANGED <<fifo, unitVars, interpVars, clipVars, armVars, lensVars, corbaVars,
                 serverVars>>

\* the except clause: sys.exc_info(), the error line and the traceback
FormatError(i) ==
    /\ i <= Len(thr)
    /\ thr[i].pc = "caught"
    /\ thr' = [thr EXCEPT ![i].pc = "formatted"]
    /\ UNCHANGED <<fifo, unitVars, interpVars, clipVars, armVars, lensVars, corbaVars,
                 serverVars>>

\* self.fifo.put((self.name, error, tback)), and run returns
Put(i) ==
    /\ i <= Len(thr)
    /\ thr[i].pc = "formatted"
    /\ fifo' = fifo_put(fifo, entry(thr[i]))
    /\ thr' = [thr EXCEPT ![i].pc = "done"]
    /\ UNCHANGED <<unitVars, interpVars, clipVars, armVars, lensVars, corbaVars,
                 serverVars>>

ThreadStep(i) == RunTarget(i) \/ FormatError(i) \/ Put(i)

NextFifo == \E i \in 1..NThreads : ThreadStep(i)

\* every started thread is scheduled again and again
SpecFifo ==
    InitFifo /\ [][NextFifo]_vars /\ \A i \in 1..NThreads : WF_vars(ThreadStep(i))

\* the entries of the fifo with this name
EntriesOf(name) == {k \in 1..Len(fifo) : fifo[k].name = name}

\* the threads of this name that have ended and whose target raised an Exception
RaisedDone(name) ==
    {i \in 1..Len(thr) : thr[i].name = name /\ thr[i].pc = "done"
                         /\ thr[i].outcome = "Exception"}

AllDone == \A i \in 1..Len(thr) : thr[i].pc = "done"

\* C20: with the threads sharing one fifo and running concurrently, at
\* every moment the fifo holds one entry (name, error line, traceback) for
\* each thread that ended on an Exception of its target and nothing else;
\* and every thread ends, so that in the end each thread whose target
\* raised an Exception has put exactly one entry and each thread whose
\* target returned has put none.
C20_FifoThreads ==
    /\ [](\A name \in ThreadNames :
             Cardinality(EntriesOf(name)) = Cardinality(RaisedDone(name)))
    /\ [](\A k \in 1..Len(fifo) : fifo[k] = entry([name |-> fifo[k].name]))
    /\ <>[]AllDone

C20_Witness ==
    /\ AllDone
    /\ Len(thr) = NThreads
    /\ Len(fifo) = 2
    /\ fifo[1].name = fifo[2].name
    /\ \E i \in 1..Len(thr) : thr[i].outcome = "returns"

\* ---------------------------------------------------------------------------
\* ReadServer (misc.py): the attributes set from a server's JSON response
\* ---------------------------------------------------------------------------

Digits == {"0", "1", "2", "3", "4", "5", "6", "7", "8", "9"}

\* int() of a string of decimal digits, given as a sequence of characters
DigitVal(c) ==
    CHOOSE d \in 0..9 :
        <<"0", "1", "2", "3", "4", "5", "6", "7", "8", "9">>[d + 1] = c

RECURSIVE int(_)
int(digits) ==
    IF digits = <<>> THEN 0
    ELSE 10 * int(SubSeq(digits, 1, Len(digits) - 1))
         + DigitVal(digits[Len(digits)])

\* the pattern '\D*(\d*).*.fits' matched at the start of a name.
\* NonDigitRun is what the greedy \D* takes first, DigitRun what the greedy
\* \d* takes after i characters, and TailMatches says whether '.*.fits'
\* matches at offset j: some character, then the letters fits.
NonDigitRun(name) ==
    CHOOSE i \in 0..Len(name) :
        /\ \A k \in 1..i : name[k] \notin Digits
        /\ i = Len(name) \/ name[i + 1] \in Digits

DigitRun(name, i) ==
    CHOOSE j \in i..Len(name) :
        /\ \A k \in (i + 1)..j : name[k] \in Digits
        /\ j = Len(name) \/ name[j + 1] \notin Digits

TailMatches(name, j) ==
    \E p \in (j + 2)..(Len(name) - 3) :
        SubSeq(name, p, p + 3) = <<"f", "i", "t", "s">>

\* the group(1) the regex engine finds: it backtracks \d* from the longest
\* digit run, then \D* towards the start (where the group is empty)
group1(name, i, j) ==
    SubSeq(name, i + 1,
           CHOOSE e \in i..j :
               /\ TailMatches(name, e)
               /\ \A f \in (e + 1)..j : ~TailMatches(name, f))

re_match(name) ==
    IF \E e \in NonDigitRun(name)..DigitRun(name, NonDigitRun(name)) :
           TailMatches(name, e)
    THEN [matched |-> TRUE,
          group |-> group1(name, NonDigitRun(name),
                           DigitRun(name, NonDigitRun(name)))]
    ELSE [matched |-> \E i \in 0..NonDigitRun(name) : TailMatches(name, i),
          group |-> <<>>]

\* a faulty variant: the run in progress reported as the last run
ReadServer_run_last(newDataFileName, exposure_state) ==
    IF ~re_match(newDataFileName).matched THEN 0
    ELSE IF re_match(newDataFileName).group = <<>> THEN 0
    ELSE IF exposure_state \in {"success", "aborted", "integrating"}
         THEN int(re_match(newDataFileName).group)
    ELSE 0

\* lines 116-134: the run number; no match (AttributeError), an empty group
\* (ValueError from int) and an unknown exposure state (ValueError) give 0
ReadServer_run(newDataFileName, exposure_state) ==
    IF ~re_match(newDataFileName).matched THEN 0
    ELSE IF re_match(newDataFileName).group = <<>> THEN 0
    ELSE IF exposure_state \in {"success", "aborted"}
         THEN int(re_match(newDataFileName).group)
    ELSE IF exposure_state = "integrating"
         THEN int(re_match(newDataFileName).group) + 1
    ELSE 0

\* a lookup of a key the decoded response does not have: __init__ raises
KeyError == [NoReadServer EXCEPT !.raised = "KeyError"]

\* ReadServer.__init__.  state_is_ERR and clocks_is_ERR are the outcomes of
\* the identity tests "sfind is 'ERR'", which the language leaves open for
\* two equal strings.
ReadServer_init(resp, status_msg, state_is_ERR, clocks_is_ERR) ==
    LET new == [NoReadServer EXCEPT !.made = TRUE, !.root = "response"]
    IN  IF ~resp.parses
        THEN [new EXCEPT !.ok = FALSE, !.root = "dict()",
                         !.err = "Could not parse JSON response"]
        ELSE IF "RETCODE" \notin resp.keys
        THEN [new EXCEPT !.ok = FALSE, !.err = "Could not identify status"]
        ELSE IF ~status_msg
        THEN IF "MESSAGEBUFFER" \notin resp.keys THEN KeyError
             ELSE [new EXCEPT !.ok = (resp.RETCODE = "OK"),
                              !.hasRun = TRUE, !.run = 0,
                              !.msg = resp.MESSAGEBUFFER]
        ELSE IF "system.subStateName" \notin resp.keys THEN KeyError
        ELSE IF state_is_ERR
        THEN [new EXCEPT !.ok = FALSE, !.root = "dict()",
                         !.err = "Could not identify state"]
        ELSE IF "cldc_0.statusName" \notin resp.keys THEN KeyError
        ELSE IF clocks_is_ERR
        THEN [new EXCEPT !.ok = FALSE, !.root = "dict()",
                         !.err = "Could not identify clock status"]
        ELSE IF \/ "exposure.newDataFileName" \notin resp.keys
                \/ "exposure.expStatusName" \notin resp.keys
        THEN KeyError
        ELSE [new EXCEPT !.ok = TRUE,
                         !.state = resp.subStateName,
                         !.clocks = resp.statusName,
                         !.hasRun = TRUE,
                         !.run = ReadServer_run(resp.newDataFileName,
                                                resp.expStatusName)]

\* the responses the servers are taken to send
ReadKeys ==
    {"RETCODE", "MESSAGEBUFFER", "system.subStateName", "cldc_0.statusName",
     "exposure.newDataFileName", "exposure.expStatusName"}

FileNames ==
    {<<"r", "u", "n", "0", "0", "1", "2", ".", "f", "i", "t", "s">>,
     <<"r", "9", "9", ".", "f", "i", "t", "s">>,
     <<"d", "1", "/", "r", "2", ".", "f", "i", "t", "s">>,
     <<"r", "u", "n", "2", "7", "f", "i", "t", "s">>,
     <<"r", "u", "n", ".", "f", "i", "t", "s">>,
     <<"r", "u", "n", "0", "0", "1", "2", ".", "d", "a", "t">>,
     <<>>}

ExposureStates == {"success", "aborted", "integrating", "idle"}

Responses ==
    {NoResponse} \cup
    [parses : {TRUE},
     keys : {ReadKeys} \cup {ReadKeys \ {k} : k \in ReadKeys},
     RETCODE : {"OK", "ERROR"},
     MESSAGEBUFFER : {"done"},
     subStateName : {"IDLE", "ERR"},
     statusName : {"enabled", "ERR"},
     newDataFileName : FileNames,
     expStatusName : ExposureStates,
     status : {""}]

\* only equal strings can be the same object
Identical(value) == IF value = "ERR" THEN BOOLEAN ELSE {FALSE}

InitReadServer ==
    /\ IdleUnits /\ IdleInterp /\ IdleClip /\ IdleArms
    /\ IdleOther

\* rs = ReadServer(resp, status_msg)
NewReadServer ==
    /\ ~rs.made /\ rs.raised = ""
    /\ \E resp \in Responses, status_msg \in BOOLEAN :
       \E state_is_ERR \in Identical(resp.subStateName),
          clocks_is_ERR \in Identical(resp.statusName) :
           /\ rsIn' = [resp |-> resp, status_msg |-> status_msg,
                       state_is_ERR |-> state_is_ERR,
                       clocks_is_ERR |-> clocks_is_ERR]
           /\ rs' = ReadServer_init(resp, status_msg,
                                    state_is_ERR, clocks_is_ERR)
    /\ UNCHANGED <<unitVars, interpVars, clipVars, armVars,
                   lensVars, corbaVars, fifoVars, postVars>>

NextReadServer == NewReadServer

SpecReadServer == InitReadServer /\ [][NextReadServer]_vars

\* C21: a ReadServer whose ok is true was built from a response that parsed
\* as JSON and whose RETCODE is "OK", whatever status_msg was.
C21_OkMeansRetcodeOk ==
    (rs.made /\ rs.ok) =>
        /\ rsIn.resp.parses
        /\ "RETCODE" \in rsIn.resp.keys
        /\ rsIn.resp.RETCODE = "OK"

\* the run number written in each file name, -1 where the name holds none
\* that the pattern finds
NumberInName(name) ==
    CASE name = <<"r", "u", "n", "0", "0", "1", "2", ".", "f", "i", "t", "s">>
             -> 12
      [] name = <<"r", "9", "9", ".", "f", "i", "t", "s">> -> 99
      [] name = <<"d", "1", "/", "r", "2", ".", "f", "i", "t", "s">> -> 1
      [] name = <<"r", "u", "n", "2", "7", "f", "i", "t", "s">> -> 2
      [] OTHER -> -1

\* a status response that parsed and from which the state of the camera and
\* of the clocks was read
StatusRead ==
    /\ rs.made
    /\ rsIn.status_msg
    /\ rsIn.resp.parses
    /\ (ReadKeys \ {"MESSAGEBUFFER"}) \subseteq rsIn.resp.keys
    /\ ~rsIn.state_is_ERR
    /\ ~rsIn.clocks_is_ERR

\* C22: for a status response run is the number N in the data file name when
\* the exposure state is success or aborted, N + 1 when it is integrating,
\* and 0 for any other exposure state or a name without a run number.
C22_RunNumber ==
    StatusRead =>
        /\ rs.hasRun
        /\ rs.run =
             IF NumberInName(rsIn.resp.newDataFileName) = -1 THEN 0
             ELSE IF rsIn.resp.expStatusName \in {"success", "aborted"}
                  THEN NumberInName(rsIn.resp.newDataFileName)
             ELSE IF rsIn.resp.expStatusName = "integrating"
                  THEN NumberInName(rsIn.resp.newDataFileName) + 1
             ELSE 0

C22_Witness ==
    /\ StatusRead
    /\ rsIn.resp.newDataFileName =
           <<"r", "u", "n", "0", "0", "1", "2", ".", "f", "i", "t", "s">>
    /\ rsIn.resp.expStatusName = "integrating"
    /\ rs.run = 13

\* ---------------------------------------------------------------------------
\* postJSON (misc.py): the setup posted to the camera server, then to the
\* GTC offset server
\* ---------------------------------------------------------------------------

MaxPosts == 2

\* postJSON returned value, or raised: the call is over
Returned(p, value) == [p EXCEPT !.pc = "done", !.result = value]

\* a faulty variant: the offset server is set up whatever the camera
\* server answered
postJSON_after_camera_eager(p, csr) ==
    IF csr.raised # "" THEN Returned(p, "raised")
    ELSE IF p.telins = "GTC" THEN [p EXCEPT !.pc = "offset"]
    ELSE Returned(p, "True")

\* lines 254-262: csr = ReadServer(response, status_msg=False) raised, was
\* not ok, or was ok with or without an offset server to set up
postJSON_after_camera(p, csr) ==
    IF csr.raised # "" THEN Returned(p, "raised")
    ELSE IF ~csr.ok THEN Returned(p, "False")
    ELSE IF p.telins = "GTC" THEN [p EXCEPT !.pc = "offset"]
    ELSE Returned(p, "True")

\* lines 266-280: the post to the offset server failed (caught), or its
\* response does not decode or has no status (raised), or its status is read
postJSON_after_offset(p, error, resp) ==
    IF error THEN Returned(p, "False")
    ELSE IF ~resp.parses \/ "status" \notin resp.keys
         THEN Returned(p, "raised")
    ELSE IF resp.status # "OK" THEN Returned(p, "False")
    ELSE Returned(p, "True")

\* what the two servers may answer
CameraResponses ==
    {NoResponse} \cup
    {[NoResponse EXCEPT !.parses = TRUE, !.keys = k, !.RETCODE = r,
                        !.MESSAGEBUFFER = "done"] :
         k \in SUBSET {"RETCODE", "MESSAGEBUFFER"}, r \in {"OK", "ERROR"}}

OffsetResponses ==
    {NoResponse} \cup
    {[NoResponse EXCEPT !.parses = TRUE, !.keys = k, !.status = t] :
         k \in SUBSET {"status"}, t \in {"OK", "FAIL"}}

TelIns == {"GTC", "WHT"}

Contact(server, error, resp) ==
    [call |-> post.calls, server |-> server, error |-> error, resp |-> resp]

InitPost ==
    /\ IdleUnits /\ IdleInterp /\ IdleClip /\ IdleArms
    /\ IdleOther

\* postJSON(g, data) is called and builds its request (lines 240-251)
PostJSON(telins) ==
    /\ post.pc \in {"idle", "done"}
    /\ post.calls < MaxPosts
    /\ post' = [pc |-> "camera", calls |-> post.calls + 1,
                telins |-> telins, result |-> "None"]
    /\ UNCHANGED <<contacts, unitVars, interpVars, clipVars, armVars,
                   lensVars, corbaVars, fifoVars, readVars>>

\* opener.open(req, timeout=15).read() at the camera server and the
\* decision on its response (lines 252-259)
PostCamera(error, resp) ==
    /\ post.pc = "camera"
    /\ contacts' = Append(contacts, Contact("camera", error, resp))
    /\ post' = IF error THEN Returned(post, "raised")
               ELSE postJSON_after_camera(
                        post, ReadServer_init(resp, FALSE, FALSE, FALSE))
    /\ UNCHANGED <<unitVars, interpVars, clipVars, armVars,
                   lensVars, corbaVars, fifoVars, readVars>>

\* opener.open(req, timeout=5).read() at the offset server and the decision
\* on its response (lines 263-280)
PostOffset(error, resp) ==
    /\ post.pc = "offset"
    /\ contacts' = Append(contacts, Contact("offset", error, resp))
    /\ post' = postJSON_after_offset(post, error, resp)
    /\ UNCHANGED <<unitVars, interpVars, clipVars, armVars,
                   lensVars, corbaVars, fifoVars, readVars>>

NextPost ==
    \/ \E telins \in TelIns : PostJSON(telins)
    \/ PostCamera(TRUE, NoResponse)
    \/ \E resp \in CameraResponses : PostCamera(FALSE, resp)
    \/ PostOffset(TRUE, NoResponse)
    \/ \E resp \in OffsetResponses : PostOffset(FALSE, resp)

SpecPost == InitPost /\ [][NextPost]_vars

\* a server answered OK: it answered, and its response decodes to an object
\* whose RETCODE (camera) or status (offset) is "OK"
AnsweredOK(c) ==
    /\ ~c.error
    /\ c.resp.parses
    /\ IF c.server = "camera"
       THEN "RETCODE" \in c.resp.keys /\ c.resp.RETCODE = "OK"
       ELSE "status" \in c.resp.keys /\ c.resp.status = "OK"

ThisCall == {k \in 1..Len(contacts) : contacts[k].call = post.calls}

C24_SideKept ==
    /\ [](arm.made => arm.side \in SideSpellings)
    /\ [][ret'.op = "side" =>
              IF ret'.side \in SideSpellings
              THEN ret'.kind = "ok" /\ arm'.side = ret'.side
              ELSE ret'.kind = InvalidSide /\ arm' = arm]_vars
    /\ [][arm'.side # arm.side =>
              /\ ret'.op \in {"side", "InjectionArm"}
              /\ ret'.kind = "ok"
              /\ arm'.side = ret'.side]_vars

\* an arm that was on the right (its right baffle is cached), was set to
\* left, and then refused the value up
C24_Witness ==
    /\ arm.made
    /\ arm.b.right # Unset
    /\ arm.side = "left"
    /\ ret.op = "side"
    /\ ret.side = "up"
    /\ ret.kind = InvalidSide

====
